---- MODULE Spec2Model ----
(***************************************************************************)
(* Critical-path analysis of a circuit description.                        *)
(*                                                                         *)
(* The repository holds the analysis twice: as the class Circuit           *)
(* (circuit_class.py) and as the module-level functions read_circuit and   *)
(* find_critical_path (script.py).  The parsing loop, the scheduler and    *)
(* the propagation loop are the same code in both; they differ in how an   *)
(* error leaves the function.  The variable impl says which of the two is  *)
(* running.                                                                *)
(*                                                                         *)
(* Delays are the source's floats scaled by ten (1.0 -> 10, 0.2 -> 2,      *)
(* 0.5 -> 5), so that sums and comparisons are exact.                      *)
(***************************************************************************)
EXTENDS Integers, Sequences, FiniteSets, TLC

VARIABLES
    impl,           \* "class" (circuit_class.py) or "script" (script.py)
    lines,          \* the lines of the file consumed so far, each its tokens
    pc,             \* position of the program
    node_counter,   \* read_circuit's node_counter
    nodes,          \* the nodes dict: node_id -> [unique_id, type, inputs, outputs]
    keys,           \* insertion order of the nodes dict
    inputs,         \* the inputs list
    outputs,        \* the outputs list
    sorted_nodes,   \* the order the scheduler returned
    idx,            \* position of the propagation loop in sorted_nodes
    delays,         \* the delays dict
    predecessors,   \* the predecessors dict
    result,         \* the tuple find_critical_path returned
    err             \* the exception raised, or the message printed: tokens

vars == <<impl, lines, pc, node_counter, nodes, keys, inputs, outputs,
          sorted_nodes, idx, delays, predecessors, result, err>>

(***************************************************************************)
(* Bounds of the general specification.                                    *)
(***************************************************************************)
MaxLines == 3   \* lines in a file
MaxRefs == 2    \* input references in a file, all declarations together

IdOrder == <<"a", "b", "c", "d", "e">>
Kinds == {"INPUT", "OUTPUT", "REG"}

Impls == {"class", "script"}

----------------------------------------------------------------------------
(* Small helpers for dicts and lists.                                      *)

EmptyDict == [k \in {} |-> 0]

Put(f, k, v) == [x \in (DOMAIN f) \cup {k} |-> IF x = k THEN v ELSE f[x]]

Range(s) == {s[i] : i \in 1..Len(s)}

Max(x, y) == IF x >= y THEN x ELSE y

NoResult == [critical_path |-> <<>>, total_delay |-> -1, components_with_delays |-> <<>>]

----------------------------------------------------------------------------
(* component_delays, scaled by ten, and its .get(kind, DEFAULT) lookup.     *)

(* Variant: only the gates listed in the table have a delay.               *)
ComponentDelayGatesOnly(kind) ==
    CASE kind = "ADD" -> 10
      [] kind = "MUL" -> 10
      [] kind = "REG" -> 2
      [] kind = "MUX" -> 10
      [] OTHER -> 0

ComponentDelay(kind) ==
    CASE kind = "ADD" -> 10
      [] kind = "MUL" -> 10
      [] kind = "REG" -> 2
      [] kind = "MUX" -> 10
      [] OTHER -> 5

----------------------------------------------------------------------------
Init ==
    /\ impl \in Impls
    /\ lines = <<>>
    /\ pc = "read"
    /\ node_counter = 0
    /\ nodes = EmptyDict
    /\ keys = <<>>
    /\ inputs = <<>>
    /\ outputs = <<>>
    /\ sorted_nodes = <<>>
    /\ idx = 0
    /\ delays = EmptyDict
    /\ predecessors = EmptyDict
    /\ result = NoResult
    /\ err = <<>>

(* What leaves read_circuit on a line with fewer than two tokens.          *)
InvalidLineError(which, parts) ==
    IF which = "class"
    THEN <<"ValueError", "Error reading circuit: ", "Invalid line format: ">> \o parts
    ELSE <<"print", "Error reading the circuit file: ", "Invalid line format: ">> \o parts

(* One iteration of the parsing loop.  parts is line.strip().split(): the  *)
(* tokens of the line.  A comment line is one whose first token is "#".    *)
ReadLine(parts) ==
    /\ pc = "read"
    /\ lines' = Append(lines, parts)
    /\ IF parts = <<>> \/ Head(parts) = "#"
       THEN UNCHANGED <<pc, node_counter, nodes, keys, inputs, outputs, err>>
       ELSE IF Len(parts) < 2
       THEN /\ pc' = "read_failed"
            /\ err' = InvalidLineError(impl, parts)
            /\ UNCHANGED <<node_counter, nodes, keys, inputs, outputs>>
       ELSE LET node_type == parts[1]
                node_id == parts[2]
            IN  /\ nodes' = Put(nodes, node_id,
                                [unique_id |-> <<"node_", node_counter>>,
                                 type |-> node_type,
                                 inputs |-> SubSeq(parts, 3, Len(parts)),
                                 outputs |-> <<>>])
                /\ keys' = IF node_id \in DOMAIN nodes THEN keys ELSE Append(keys, node_id)
                /\ node_counter' = node_counter + 1
                /\ inputs' = IF node_type = "INPUT" THEN Append(inputs, node_id) ELSE inputs
                /\ outputs' = IF node_type = "OUTPUT" THEN Append(outputs, node_id) ELSE outputs
                /\ UNCHANGED <<pc, err>>
    /\ UNCHANGED <<impl, sorted_nodes, idx, delays, predecessors, result>>

----------------------------------------------------------------------------
(* read_circuit, second pass: "Populate outputs for each node".            *)
(* PopulateFrom walks the dict in insertion order (ks) and each input list *)
(* in order, from node ks[k] and its j-th input on.  It stops at the first *)
(* input that is no key of the dict and reports <<node_id, input_id>>.     *)

RECURSIVE PopulateFrom(_, _, _, _)
PopulateFrom(ns, ks, k, j) ==
    IF k > Len(ks) THEN [nodes |-> ns, undefined |-> <<>>]
    ELSE LET node_id == ks[k]
             ins == ns[node_id].inputs
         IN  IF j > Len(ins) THEN PopulateFrom(ns, ks, k + 1, 1)
             ELSE IF ins[j] \notin DOMAIN ns
                  THEN [nodes |-> ns, undefined |-> <<node_id, ins[j]>>]
                  ELSE PopulateFrom([ns EXCEPT ![ins[j]].outputs = Append(@, node_id)],
                                    ks, k, j + 1)

(* What leaves read_circuit when input_id, listed by node_id, is undefined. *)
(* Circuit.read_circuit raises ValueError("Undefined input node: ...") and  *)
(* re-raises it prefixed; script.read_circuit raises a KeyError that its    *)
(* own handler prints before returning None.                                *)
UndefinedInputError(which, node_id, input_id) ==
    IF which = "class"
    THEN <<"ValueError", "Error reading circuit: ", "Undefined input node: ", input_id>>
    ELSE <<"print", "Error reading the circuit file: ",
           "Input ", input_id, " referenced by ", node_id, " not found in nodes.">>

(* End of file: the second pass, then read_circuit returns or fails.       *)
PopulateOutputs ==
    /\ pc = "read"
    /\ LET r == PopulateFrom(nodes, keys, 1, 1)
       IN  /\ nodes' = r.nodes
           /\ IF r.undefined = <<>>
              THEN /\ pc' = "built"
                   /\ err' = err
              ELSE /\ pc' = "read_failed"
                   /\ err' = UndefinedInputError(impl, r.undefined[1], r.undefined[2])
    /\ UNCHANGED <<impl, lines, node_counter, keys, inputs, outputs,
                   sorted_nodes, idx, delays, predecessors, result>>

----------------------------------------------------------------------------
(* topological_sort (Kahn's algorithm on a list used as a queue).          *)

InDegree(ns) == [node_id \in DOMAIN ns |-> Len(ns[node_id].inputs)]

(* Variant: a neighbour is enqueued on every decrement.                    *)
RECURSIVE RelaxEnqueueAlways(_, _, _, _)
RelaxEnqueueAlways(outs, i, in_degree, queue) ==
    IF i > Len(outs) THEN [in_degree |-> in_degree, queue |-> queue]
    ELSE RelaxEnqueueAlways(outs, i + 1, [in_degree EXCEPT ![outs[i]] = @ - 1],
                            Append(queue, outs[i]))

(* The inner loop over the outputs of the node just popped.                *)
RECURSIVE Relax(_, _, _, _)
Relax(outs, i, in_degree, queue) ==
    IF i > Len(outs) THEN [in_degree |-> in_degree, queue |-> queue]
    ELSE LET neighbor == outs[i]
             deg == [in_degree EXCEPT ![neighbor] = @ - 1]
         IN  Relax(outs, i + 1, deg,
                   IF deg[neighbor] = 0 THEN Append(queue, neighbor) ELSE queue)

(* The while loop: pop the head, append it, relax its outputs.             *)
RECURSIVE Kahn(_, _, _, _)
Kahn(ns, in_degree, queue, sorted) ==
    IF queue = <<>> THEN sorted
    ELSE LET current == Head(queue)
             r == Relax(ns[current].outputs, 1, in_degree, Tail(queue))
         IN  Kahn(ns, r.in_degree, r.queue, Append(sorted, current))

TopologicalSort(ns, ks) ==
    LET in_degree == InDegree(ns)
        queue == SelectSeq(ks, LAMBDA node : in_degree[node] = 0)
    IN  Kahn(ns, in_degree, queue, <<>>)

----------------------------------------------------------------------------
(* find_critical_path.                                                     *)

(* "Initialize delays for input nodes": delays[node_id] = 0 for the inputs *)
(* list.                                                                   *)
InitialDelays(ins) == [node_id \in Range(ins) |-> 0]

(* The first input of ins, from position i on, that is no key of d; <<>>   *)
(* when every one is a key.  A lookup d[input_id] raises KeyError there.   *)
RECURSIVE FirstMissing(_, _, _)
FirstMissing(ins, i, d) ==
    IF i > Len(ins) THEN <<>>
    ELSE IF ins[i] \notin d THEN <<ins[i]>>
    ELSE FirstMissing(ins, i + 1, d)

(* Variant: the delay of the last input replaces the running maximum.      *)
RECURSIVE MaxInputDelayLast(_, _, _, _)
MaxInputDelayLast(ins, i, d, max_input_delay) ==
    IF i > Len(ins) THEN max_input_delay
    ELSE MaxInputDelayLast(ins, i + 1, d,
                           IF ins[i] \in DOMAIN d THEN d[ins[i]] ELSE max_input_delay)

(* max_input_delay: starts at 0, max over the inputs in order.  script.py  *)
(* skips an input that has no delay; circuit_class.py looks it up          *)
(* (PropagateNode handles the KeyError before this is evaluated).          *)
RECURSIVE MaxInputDelay(_, _, _, _)
MaxInputDelay(ins, i, d, max_input_delay) ==
    IF i > Len(ins) THEN max_input_delay
    ELSE MaxInputDelay(ins, i + 1, d,
                       IF ins[i] \in DOMAIN d
                       THEN Max(max_input_delay, d[ins[i]])
                       ELSE max_input_delay)

(* Variant: the loop stops at the first input that ties.                   *)
RECURSIVE SetPredecessorsKeepFirst(_, _, _, _, _, _)
SetPredecessorsKeepFirst(preds, node_id, ins, i, d, component_delay) ==
    IF i > Len(ins) THEN preds
    ELSE IF d[node_id] = d[ins[i]] + component_delay
         THEN Put(preds, node_id, ins[i])
         ELSE SetPredecessorsKeepFirst(preds, node_id, ins, i + 1, d, component_delay)

(* The second loop over the inputs: every input whose delay plus the       *)
(* component delay equals the node's delay is assigned as predecessor, in  *)
(* input order, each assignment overwriting the one before.                *)
RECURSIVE SetPredecessors(_, _, _, _, _, _)
SetPredecessors(preds, node_id, ins, i, d, component_delay) ==
    IF i > Len(ins) THEN preds
    ELSE SetPredecessors(
             IF d[node_id] = d[ins[i]] + component_delay
             THEN Put(preds, node_id, ins[i])
             ELSE preds,
             node_id, ins, i + 1, d, component_delay)

(* How an exception exc = <<type, text...>> leaves find_critical_path:     *)
(* Circuit.find_critical_path lets it propagate; script.find_critical_path *)
(* prints it and returns ([], 0, []).                                      *)
Fail(exc) ==
    IF impl = "class"
    THEN /\ pc' = "raised"
         /\ err' = exc
         /\ result' = result
    ELSE /\ pc' = "returned"
         /\ err' = <<"print", "Error finding the critical path: ">> \o Tail(exc)
         /\ result' = [critical_path |-> <<>>, total_delay |-> 0,
                       components_with_delays |-> <<>>]

(* Entry of find_critical_path on the built graph: the two dicts, the      *)
(* delays of the inputs list, and the call of topological_sort.            *)
StartAnalysis ==
    /\ pc = "built"
    /\ delays' = InitialDelays(inputs)
    /\ predecessors' = EmptyDict
    /\ sorted_nodes' = TopologicalSort(nodes, keys)
    /\ idx' = 1
    /\ pc' = "propagate"
    /\ UNCHANGED <<impl, lines, node_counter, nodes, keys, inputs, outputs, result, err>>

(* One iteration of "Calculate delays and predecessors".                   *)
PropagateNode ==
    /\ pc = "propagate"
    /\ idx <= Len(sorted_nodes)
    /\ LET node_id == sorted_nodes[idx]
           node == nodes[node_id]
           component_delay == ComponentDelay(node.type)
           missing == IF impl = "class"
                      THEN FirstMissing(node.inputs, 1, DOMAIN delays)
                      ELSE FirstMissing(node.inputs, 1, DOMAIN delays \cup {node_id})
           new_delays == Put(delays, node_id,
                             MaxInputDelay(node.inputs, 1, delays, 0) + component_delay)
       IN  IF missing # <<>>
           THEN /\ Fail(<<"KeyError">> \o missing)
                /\ UNCHANGED <<delays, predecessors, idx>>
           ELSE /\ delays' = new_delays
                /\ predecessors' = SetPredecessors(predecessors, node_id, node.inputs, 1,
                                                   new_delays, component_delay)
                /\ idx' = idx + 1
                /\ UNCHANGED <<pc, result, err>>
    /\ UNCHANGED <<impl, lines, node_counter, nodes, keys, inputs, outputs, sorted_nodes>>

(* Variant: a later output with an equal key replaces the earlier one.     *)
RECURSIVE CriticalOutputLastMax(_, _, _, _)
CriticalOutputLastMax(outs, i, d, best) ==
    IF i > Len(outs) THEN best
    ELSE CriticalOutputLastMax(outs, i + 1, d,
                               IF d[outs[i]] >= d[best] THEN outs[i] ELSE best)

(* max(outputs, key = delays[.]): the first element with the largest key.  *)
RECURSIVE CriticalOutput(_, _, _, _)
CriticalOutput(outs, i, d, best) ==
    IF i > Len(outs) THEN best
    ELSE CriticalOutput(outs, i + 1, d, IF d[outs[i]] > d[best] THEN outs[i] ELSE best)

(* Variant: one step back instead of the whole chain.                      *)
ReconstructPathOneStep(current_node, preds, critical_path) ==
    IF current_node \in DOMAIN preds
    THEN <<preds[current_node], current_node>> \o critical_path
    ELSE <<current_node>> \o critical_path

(* "Reconstruct the critical path": follow predecessors, inserting at the  *)
(* front.                                                                  *)
RECURSIVE ReconstructPath(_, _, _)
ReconstructPath(current_node, preds, critical_path) ==
    IF current_node \in DOMAIN preds
    THEN ReconstructPath(preds[current_node], preds, <<current_node>> \o critical_path)
    ELSE <<current_node>> \o critical_path

(* Variant: the breakdown looks the delay up without the default.          *)
ComponentsWithDelaysNoDefault(ns, critical_path) ==
    [i \in 1..Len(critical_path) |->
        <<critical_path[i], ComponentDelayGatesOnly(ns[critical_path[i]].type)>>]

ComponentsWithDelays(ns, critical_path) ==
    [i \in 1..Len(critical_path) |->
        <<critical_path[i], ComponentDelay(ns[critical_path[i]].type)>>]

(* After the loop: select the output, rebuild the path, return.            *)
ExtractCriticalPath ==
    /\ pc = "propagate"
    /\ idx > Len(sorted_nodes)
    /\ LET missing == FirstMissing(outputs, 1, DOMAIN delays)
       IN  IF outputs = <<>>
           THEN Fail(<<"ValueError", "max() arg is an empty sequence">>)
           ELSE IF missing # <<>>
           THEN Fail(<<"KeyError">> \o missing)
           ELSE LET critical_output == CriticalOutput(outputs, 2, delays, outputs[1])
                    critical_path == ReconstructPath(critical_output, predecessors, <<>>)
                IN  /\ result' = [critical_path |-> critical_path,
                                  total_delay |-> delays[critical_output],
                                  components_with_delays |->
                                      ComponentsWithDelays(nodes, critical_path)]
                    /\ pc' = "returned"
                    /\ err' = err
    /\ UNCHANGED <<impl, lines, node_counter, nodes, keys, inputs, outputs,
                   sorted_nodes, idx, delays, predecessors>>

----------------------------------------------------------------------------
(* The files of the general specification: at most MaxLines lines with at  *)
(* most MaxRefs input references between them.  A line is a comment, a     *)
(* line of one token, or a declaration.  Identities are declared in the    *)
(* order of IdOrder, each once; an input reference names any of the first  *)
(* MaxLines identities, declared or not.                                   *)

Ids == {IdOrder[i] : i \in 1..MaxLines}

RECURSIVE RefsUsed(_, _)
RefsUsed(ns, ks) ==
    IF ks = <<>> THEN 0 ELSE Len(ns[Head(ks)].inputs) + RefsUsed(ns, Tail(ks))

SeqsUpTo(S, n) == UNION {[1..k -> S] : k \in 0..n}

Declarations ==
    {<<kind, IdOrder[Len(keys) + 1]>> \o ins :
        kind \in Kinds, ins \in SeqsUpTo(Ids, MaxRefs - RefsUsed(nodes, keys))}

NextLines ==
    IF Len(lines) >= MaxLines THEN {}
    ELSE Declarations \cup {<<"#", "comment">>, <<"OUTPUT">>}

Next ==
    \/ \E parts \in NextLines : ReadLine(parts)
    \/ PopulateOutputs
    \/ StartAnalysis
    \/ PropagateNode
    \/ ExtractCriticalPath

Spec == Init /\ [][Next]_vars

----------------------------------------------------------------------------
(* The three circuit files create_txt.py writes, line by line.             *)

circuit1 ==
    << <<"#", "Simple", "Arithmetic", "Circuit">>,
       <<"INPUT", "a">>,
       <<"INPUT", "b">>,
       <<"ADD", "add1", "a", "b">>,
       <<"MUL", "mul1", "add1", "b">>,
       <<"OUTPUT", "out1", "mul1">> >>

circuit2 ==
    << <<"#", "Circuit", "with", "Register", "and", "Multiplexer">>,
       <<"INPUT", "in1">>,
       <<"INPUT", "in2">>,
       <<"INPUT", "select">>,
       <<"ADD", "add1", "in1", "in2">>,
       <<"MUX", "mux1", "in1", "add1", "select">>,
       <<"REG", "reg1", "mux1">>,
       <<"MUL", "mul1", "reg1", "in2">>,
       <<"OUTPUT", "out1", "mul1">> >>

circuit3 ==
    << <<"#", "Complex", "Circuit">>,
       <<"INPUT", "x1">>,
       <<"INPUT", "x2">>,
       <<"INPUT", "x3">>,
       <<"ADD", "add1", "x1", "x2">>,
       <<"MUL", "mul1", "add1", "x3">>,
       <<"REG", "reg1", "mul1">>,
       <<"ADD", "add2", "reg1", "x1">>,
       <<"MUL", "mul2", "add2", "x2">>,
       <<"OUTPUT", "y", "mul2">> >>

contents == {circuit1, circuit2, circuit3}

IsPrefix(s, t) == Len(s) <= Len(t) /\ SubSeq(t, 1, Len(s)) = s

(* The analysis run on one of the files of create_txt.py.                  *)
NextExamples ==
    \/ \E content \in contents :
          /\ IsPrefix(lines, content)
          /\ Len(lines) < Len(content)
          /\ ReadLine(content[Len(lines) + 1])
    \/ (lines \in contents /\ PopulateOutputs)
    \/ StartAnalysis
    \/ PropagateNode
    \/ ExtractCriticalPath

SpecExamples == Init /\ [][NextExamples]_vars

----------------------------------------------------------------------------
(* Vocabulary of the properties.                                           *)

(* read_circuit has returned a graph and find_critical_path has passed the *)
(* scheduler.                                                              *)
Scheduled == pc \in {"propagate", "returned", "raised"}

(* The propagation loop has run to its end on every scheduled node.        *)
Propagated == Scheduled /\ idx > Len(sorted_nodes)

NodeCount == Cardinality(DOMAIN nodes)

InputsOf(node_id) == Range(nodes[node_id].inputs)

(* The input adjacency has a cycle iff some non-empty set of nodes has, for *)
(* each member, an input inside the set.                                    *)
Acyclic ==
    \A S \in SUBSET (DOMAIN nodes) :
        S = {} \/ \E node_id \in S : InputsOf(node_id) \cap S = {}

Positions(seq, x) == {k \in 1..Len(seq) : seq[k] = x}

Last(seq) == seq[Len(seq)]

SetMax(S) == CHOOSE m \in S : \A x \in S : x <= m

(* The nodes the propagation loop has finished with.                       *)
Processed == {sorted_nodes[k] : k \in 1..(idx - 1)}

(* Positions in node_id's input list of the inputs whose arrival time plus *)
(* the node's component delay equals the node's arrival time.              *)
TiedInputs(node_id) ==
    {j \in 1..Len(nodes[node_id].inputs) :
        delays[nodes[node_id].inputs[j]] + ComponentDelay(nodes[node_id].type)
            = delays[node_id]}

RECURSIVE SumDelays(_)
SumDelays(components) ==
    IF components = <<>> THEN 0 ELSE Head(components)[2] + SumDelays(Tail(components))

(* find_critical_path returned its tuple from the normal path.             *)
ReturnedPath == pc = "returned" /\ err = <<>>

----------------------------------------------------------------------------
(* C1 (as stated): on circuit1 the analysis returns the critical path      *)
(* a -> add1 -> mul1 -> out1 with total delay 2.00 (20 in tenths).         *)
C1_Circuit1PathFromA ==
    (lines = circuit1 /\ pc \in {"returned", "raised"}) =>
        /\ ReturnedPath
        /\ result.critical_path = <<"a", "add1", "mul1", "out1">>
        /\ result.total_delay = 20

(* C1 (amended): on circuit1 the analysis returns the critical path        *)
(* b -> add1 -> mul1 -> out1 with total delay 3.00 (30 in tenths): the     *)
(* INPUT and OUTPUT nodes each add the default delay, and of the inputs a  *)
(* and b of add1, tied at 0.5, the later one is recorded.                  *)
C1_Circuit1PathFromB ==
    (lines = circuit1 /\ pc \in {"returned", "raised"}) =>
        /\ ReturnedPath
        /\ result.critical_path = <<"b", "add1", "mul1", "out1">>
        /\ result.total_delay = 30
        /\ result.components_with_delays =
               << <<"b", 5>>, <<"add1", 10>>, <<"mul1", 10>>, <<"out1", 5>> >>

C1_Witness == lines = circuit1 /\ ReturnedPath

----------------------------------------------------------------------------
(* C2: for a built graph whose input adjacency is acyclic, the order the   *)
(* scheduler returns has as many entries as there are nodes, holds every   *)
(* node exactly once and every node after each of its inputs; and the node *)
(* the propagation loop is about to process has a delay entry for each of  *)
(* its inputs.                                                             *)
C2_TopologicalOrder ==
    (Scheduled /\ Acyclic) =>
        /\ Len(sorted_nodes) = NodeCount
        /\ \A node_id \in DOMAIN nodes :
              /\ Cardinality(Positions(sorted_nodes, node_id)) = 1
              /\ \A input_id \in InputsOf(node_id) :
                    \A k \in Positions(sorted_nodes, node_id) :
                        \E j \in Positions(sorted_nodes, input_id) : j < k
        /\ (pc = "propagate" /\ idx <= Len(sorted_nodes)) =>
              InputsOf(sorted_nodes[idx]) \subseteq DOMAIN delays

C2_Witness ==
    /\ pc = "propagate"
    /\ Acyclic
    /\ NodeCount = 3
    /\ idx <= Len(sorted_nodes)
    /\ Cardinality(InputsOf(sorted_nodes[idx])) = 2

----------------------------------------------------------------------------
(* C3: with a cycle in the input adjacency the scheduler raises a          *)
(* cycle-detected error of its own: the truncated order never reaches the  *)
(* propagation loop, nothing is returned, and the error that leaves is not *)
(* one of the other errors.                                                *)
C3_CycleIsDetected ==
    (Scheduled /\ ~Acyclic) =>
        /\ pc = "raised"
        /\ Head(err) \notin {"KeyError", "ValueError"}

----------------------------------------------------------------------------
(* C4 (as stated): the predecessor recorded for a processed node with      *)
(* inputs is the FIRST input, in declared order, whose arrival time plus   *)
(* the node's component delay equals the node's arrival time.              *)
C4_FirstTiedInputWins ==
    Scheduled =>
        \A node_id \in Processed :
            nodes[node_id].inputs # <<>> =>
                /\ TiedInputs(node_id) # {}
                /\ node_id \in DOMAIN predecessors
                /\ \E j \in TiedInputs(node_id) :
                      /\ \A k \in TiedInputs(node_id) : j <= k
                      /\ predecessors[node_id] = nodes[node_id].inputs[j]

(* C4 (amended): the predecessor recorded is the LAST input, in declared   *)
(* order, whose arrival time plus the node's component delay equals the    *)
(* node's arrival time: a later tied input replaces an earlier one.        *)
C4_LastTiedInputWins ==
    Scheduled =>
        \A node_id \in Processed :
            nodes[node_id].inputs # <<>> =>
                /\ TiedInputs(node_id) # {}
                /\ node_id \in DOMAIN predecessors
                /\ \E j \in TiedInputs(node_id) :
                      /\ \A k \in TiedInputs(node_id) : k <= j
                      /\ predecessors[node_id] = nodes[node_id].inputs[j]

C4_Witness ==
    /\ Scheduled
    /\ \E node_id \in Processed :
          \E j, k \in TiedInputs(node_id) :
              nodes[node_id].inputs[j] # nodes[node_id].inputs[k]

----------------------------------------------------------------------------
(* The case of C5, C9 and C10: find_critical_path has ended on an acyclic  *)
(* built graph with at least one entry in the outputs list.                *)
AnalysedWithOutputs == pc \in {"returned", "raised"} /\ Acyclic /\ outputs # <<>>

(* C5 (as stated): the returned path ends at a node of the outputs list    *)
(* and starts at a node of the inputs list, of kind INPUT, whose arrival   *)
(* time in the delay table is 0.                                           *)
C5_PathFromZeroInputToOutput ==
    AnalysedWithOutputs =>
        /\ ReturnedPath
        /\ result.critical_path # <<>>
        /\ Last(result.critical_path) \in Range(outputs)
        /\ Head(result.critical_path) \in Range(inputs)
        /\ nodes[Head(result.critical_path)].type = "INPUT"
        /\ delays[Head(result.critical_path)] = 0

(* C5 (amended): the returned path ends at a node of the outputs list and  *)
(* starts at a node that declares no inputs (of kind INPUT or any other),  *)
(* whose arrival time in the delay table is its own component delay (0.5   *)
(* for an INPUT node), not 0.                                              *)
C5_PathFromSourceToOutput ==
    AnalysedWithOutputs =>
        /\ ReturnedPath
        /\ result.critical_path # <<>>
        /\ Last(result.critical_path) \in Range(outputs)
        /\ nodes[Head(result.critical_path)].inputs = <<>>
        /\ delays[Head(result.critical_path)]
               = ComponentDelay(nodes[Head(result.critical_path)].type)
        /\ delays[Head(result.critical_path)] > 0

C5_Witness ==
    /\ AnalysedWithOutputs
    /\ ReturnedPath
    /\ Len(result.critical_path) = 3
    /\ nodes[Head(result.critical_path)].type = "INPUT"

----------------------------------------------------------------------------
(* C6: after propagation over an acyclic built graph every node n has      *)
(* delay[n] = max({delay[i] : i an input of n} \cup {0}) + the component   *)
(* delay of n's kind.                                                      *)
C6_ArrivalTimeRecurrence ==
    (Propagated /\ Acyclic) =>
        \A node_id \in DOMAIN nodes :
            /\ node_id \in DOMAIN delays
            /\ InputsOf(node_id) \subseteq DOMAIN delays
            /\ delays[node_id] =
                   SetMax({delays[input_id] : input_id \in InputsOf(node_id)} \cup {0})
                       + ComponentDelay(nodes[node_id].type)

C6_Witness ==
    /\ Propagated
    /\ Acyclic
    /\ \E node_id \in DOMAIN nodes :
          /\ Len(nodes[node_id].inputs) = 2
          /\ delays[nodes[node_id].inputs[1]] > delays[nodes[node_id].inputs[2]]

----------------------------------------------------------------------------
(* The references <<node, input>> of the dict whose input is no key of it. *)
DanglingRefs ==
    UNION {{<<node_id, input_id>> : input_id \in InputsOf(node_id) \ DOMAIN nodes} :
              node_id \in DOMAIN nodes}

(* Every line read is a comment, a blank line or a declaration.            *)
WellFormed ==
    \A k \in 1..Len(lines) :
        lines[k] = <<>> \/ Head(lines[k]) = "#" \/ Len(lines[k]) >= 2

Names(message, id) == id \in Range(message)

(* C7: when a node of the file lists an input that is never declared, the  *)
(* build fails with an error that names both the node that lists it and    *)
(* the missing identity, and no graph is returned.                         *)
C7_DanglingReferenceNamesBoth ==
    (pc # "read" /\ WellFormed /\ DanglingRefs # {}) =>
        /\ pc = "read_failed"
        /\ \E ref \in DanglingRefs : Names(err, ref[1]) /\ Names(err, ref[2])

----------------------------------------------------------------------------
(* C8: when the outputs list of the built graph is empty, extraction ends  *)
(* in an error and returns no path, total delay or breakdown.              *)
C8_NoOutputsIsAnError ==
    (pc \in {"returned", "raised"} /\ outputs = <<>>) =>
        /\ pc = "raised"
        /\ err # <<>>

----------------------------------------------------------------------------
(* C9: on an acyclic built graph with outputs, the last node of the        *)
(* returned path is the first entry of the outputs list whose arrival time *)
(* is the maximum over the outputs list, and the returned total delay is   *)
(* that arrival time.                                                      *)
C9_FirstSlowestOutput ==
    AnalysedWithOutputs =>
        /\ ReturnedPath
        /\ result.critical_path # <<>>
        /\ Range(outputs) \subseteq DOMAIN delays
        /\ LET slowest == SetMax({delays[o] : o \in Range(outputs)})
               first == CHOOSE j \in 1..Len(outputs) :
                            /\ delays[outputs[j]] = slowest
                            /\ \A k \in 1..(j - 1) : delays[outputs[k]] < slowest
           IN  /\ Last(result.critical_path) = outputs[first]
               /\ result.total_delay = slowest

C9_Witness ==
    /\ AnalysedWithOutputs
    /\ ReturnedPath
    /\ \E j, k \in 1..Len(outputs) :
          /\ j < k
          /\ outputs[j] # outputs[k]
          /\ delays[outputs[j]] = result.total_delay
          /\ delays[outputs[k]] = result.total_delay

----------------------------------------------------------------------------
(* C10: on an acyclic built graph with outputs, the returned path is a     *)
(* chain of the graph (every node but the first lists the node before it   *)
(* among its inputs, the first node has no inputs), the breakdown pairs    *)
(* each node of the path with a delay, and those delays sum to the         *)
(* returned total delay.                                                   *)
C10_PathIsChainAndSumsToTotal ==
    AnalysedWithOutputs =>
        /\ ReturnedPath
        /\ result.critical_path # <<>>
        /\ nodes[Head(result.critical_path)].inputs = <<>>
        /\ \A k \in 2..Len(result.critical_path) :
              result.critical_path[k - 1] \in InputsOf(result.critical_path[k])
        /\ Len(result.components_with_delays) = Len(result.critical_path)
        /\ \A k \in 1..Len(result.critical_path) :
              result.components_with_delays[k][1] = result.critical_path[k]
        /\ SumDelays(result.components_with_delays) = result.total_delay

C10_Witness ==
    /\ AnalysedWithOutputs
    /\ ReturnedPath
    /\ Len(result.critical_path) = 3
    /\ \E k \in 1..3 : nodes[result.critical_path[k]].type = "REG"

====
